---- MODULE Spec2Model ----
(***************************************************************************)
(* A model of softfocus/main.py: the SoftFocus dashboard of one browser    *)
(* session (catalog table, filter widgets, plot tabs, export) together     *)
(* with the static/uploads directory that every session and every          *)
(* periodic _delete_excess_xlsx callback share.                            *)
(*                                                                         *)
(* The session whose widgets are modelled is Self.  Other sessions are     *)
(* other instances of the same class; only their download callback, which  *)
(* touches the shared directory, is modelled, and what it reads from       *)
(* their own widgets is an input.                                          *)
(*                                                                         *)
(* Callbacks of one document run under that document's lock, so the        *)
(* handlers of Self are atomic with respect to each other.  Callbacks of   *)
(* different documents may be served by different server processes         *)
(* (bokeh serve --num-procs); what they do to the directory interleaves    *)
(* at the grain of single os calls.                                        *)
(***************************************************************************)
EXTENDS Integers, Sequences, FiniteSets, TLC

\* ------------------------------------------------------------------ bounds
\* plot tabs a session holds at once
MaxTabs == 2
\* exports made from one download button
MaxExports == 2
\* advances of the wall clock
MaxTicks == 2
\* nested calls of update followed before a chain is given up as endless
MaxNesting == 6

\* --------------------------------------------------------- program constants
\* the retention threshold of _delete_excess_xlsx, in hours
RetentionHours == 24

\* Python's None (sel_csv, a widget that select_one does not find)
NoneVal == "<None>"
\* the text 'None' offered by the secondary-axis selector
NoneText == "None"

\* ------------------------------------------------------------------ catalog
\* csv_dic['CSV'] in directory order: the rows of self.df
CSV == <<"a.csv", "b.csv", "c.csv">>

Datasets == {CSV[i] : i \in 1..Len(CSV)}

\* the header line of each csv file, as read_csv returns plot_df.columns
Columns(csv) ==
    CASE csv = "a.csv" -> <<"t", "u">>
      [] csv = "b.csv" -> <<"t", "w">>
      [] OTHER         -> <<"t">>

\* csv_dic['last modification'], as day numbers
LastModification(csv) ==
    CASE csv = "a.csv" -> 1
      [] csv = "b.csv" -> 2
      [] OTHER         -> 3

\* the characters of a file name, for str.contains
Chars(csv) ==
    CASE csv = "a.csv" -> <<"a", ".", "c", "s", "v">>
      [] csv = "b.csv" -> <<"b", ".", "c", "s", "v">>
      [] OTHER         -> <<"c", ".", "c", "s", "v">>

Min(S) == CHOOSE x \in S : \A y \in S : x <= y
Max(S) == CHOOSE x \in S : \A y \in S : x >= y

\* the slider's start and end: min and max of the modification dates
first_date == Min({LastModification(d) : d \in Datasets})
last_date ==
    LET m == Max({LastModification(d) : d \in Datasets})
    IN  IF m = first_date THEN first_date + 1 ELSE m

\* ------------------------------------------------------------- user inputs
\* values the user drags the date range slider to
DateRanges == {<<first_date, last_date>>, <<2, last_date>>, <<first_date, 1>>}

\* the two format hints of the size input
InitHint == "fmt: '100' or '10..200'"
Hint == "fmt: '100' or '98..102'"

\* texts the user types into the size input
SizeTexts == {"100", "50..10", "1..2..3", "a,b,c"}

\* texts the user types into the name input, as characters
NameTexts == {<< >>, <<"a">>, <<"(">>}

\* ------------------------------------------------------------------- state
VARIABLES
    sel_csv,          \* self.sel_csv
    selected,         \* data_table.source.selected['1d']['indices']
    plot_disabled,    \* self.plot_button.disabled
    date_slider,      \* self.date_slider.value
    size_inputtext,   \* self.size_inputtext.value
    csvname_text,     \* self.csvname_text.value
    main_source,      \* self.main_source.data['CSV']
    tabs,             \* self.tabs.tabs; tabs[i + 1] is the program's tabs[i]
    active,           \* self.tabs.active
    plot_dfs,         \* self.plot_dfs
    info_text,        \* self.info_text.text: "ready", "loading" or "error"
    dl,               \* where Self's download callback stands
    odl,              \* where each other session's download callback stands
    files,            \* static/uploads: file name -> [atime, sheet, columns]
    clock,            \* time.time(), in hours
    cl                \* where the running cleanup pass stands

vars == <<sel_csv, selected, plot_disabled, date_slider, size_inputtext,
          csvname_text, main_source, tabs, active, plot_dfs, info_text,
          dl, odl, files, clock, cl>>

catalog_vars == <<sel_csv, selected, plot_disabled, date_slider,
                  size_inputtext, csvname_text, main_source>>
tab_vars == <<tabs, active, plot_dfs>>
dir_vars == <<odl, files, clock, cl>>

\* -------------------------------------------------------------- the filter
\* the columns of self.df, the keys of csv_dic
DfColumns == {"CSV", "size (kB)", "last modification", "number of columns"}

\* csv_dic['size (kB)'], rounded to whole kilobytes
SizeKB(csv) ==
    CASE csv = "a.csv" -> 100
      [] csv = "b.csv" -> 10
      [] OTHER         -> 50

\* value.split('..') of the texts the size input can hold
SplitDots(text) ==
    CASE text = "100"     -> <<"100">>
      [] text = "50..10"  -> <<"50", "10">>
      [] text = "1..2..3" -> <<"1", "2", "3">>
      [] text = "a,b,c"   -> <<"a,b,c">>
      [] text = InitHint  -> <<"fmt: '100' or '10", "200'">>
      [] OTHER            -> <<"fmt: '100' or '98", "102'">>

\* int(i): the value, or -1 where int() raises ValueError
IntOf(token) ==
    CASE token = "100" -> 100
      [] token = "50"  -> 50
      [] token = "10"  -> 10
      [] token = "1"   -> 1
      [] token = "2"   -> 2
      [] token = "3"   -> 3
      [] OTHER         -> -1

\* the try block as it would run were 'size(kB)' a column of df
SizeStep_applied(text) ==
    LET tokens == SplitDots(text)
        szfilt == [i \in 1..Len(tokens) |-> IntOf(tokens[i])]
        value_error == \E i \in 1..Len(tokens) : szfilt[i] = -1
        lo == Min({szfilt[i] : i \in 1..Len(szfilt)})
        hi == Max({szfilt[i] : i \in 1..Len(szfilt)})
    IN  IF value_error
        THEN [keep |-> Datasets, rewrite |-> TRUE]
        ELSE IF Len(szfilt) = 2
        THEN [keep |-> {d \in Datasets : SizeKB(d) >= lo /\ SizeKB(d) <= hi},
              rewrite |-> FALSE]
        ELSE IF Len(szfilt) = 1
        THEN [keep |-> {d \in Datasets : SizeKB(d) = szfilt[1]},
              rewrite |-> FALSE]
        ELSE [keep |-> Datasets, rewrite |-> TRUE]

\* The try block on the size input.  keep: the rows the block leaves in
\* filt; rewrite: whether the block ends by writing the hint into the input.
\* df['size(kB)'] names no column of df (the column is 'size (kB)'), so the
\* one and two token branches raise KeyError before filt is touched.
SizeStep(text) ==
    LET tokens == SplitDots(text)
        szfilt == [i \in 1..Len(tokens) |-> IntOf(tokens[i])]
        value_error == \E i \in 1..Len(tokens) : szfilt[i] = -1
        key_error == "size(kB)" \notin DfColumns
        lo == Min({szfilt[i] : i \in 1..Len(szfilt)})
        hi == Max({szfilt[i] : i \in 1..Len(szfilt)})
    IN  IF value_error
        THEN [keep |-> Datasets, rewrite |-> TRUE]
        ELSE IF Len(szfilt) = 2
        THEN IF key_error
             THEN [keep |-> Datasets, rewrite |-> TRUE]
             ELSE [keep |-> {d \in Datasets : SizeKB(d) >= lo /\ SizeKB(d) <= hi},
                   rewrite |-> FALSE]
        ELSE IF Len(szfilt) = 1
        THEN IF key_error
             THEN [keep |-> Datasets, rewrite |-> TRUE]
             ELSE [keep |-> {d \in Datasets : SizeKB(d) = szfilt[1]},
                   rewrite |-> FALSE]
        ELSE [keep |-> Datasets, rewrite |-> TRUE]

\* re.compile of the name text: an unbalanced parenthesis raises
ValidRegex(pat) == \A i \in 1..Len(pat) : pat[i] # "("

\* Series.str.contains: the pattern matches somewhere in the name; '.'
\* matches any character
Contains(name, pat) ==
    \E off \in 0..(Len(name) - Len(pat)) :
        \A i \in 1..Len(pat) : pat[i] = "." \/ pat[i] = name[off + i]

\* df[filt]['CSV'].to_list(): the rows of df that pass, in df's order
Rows(keep) == SelectSeq(CSV, LAMBDA d : d \in keep)

\* a wrapper that lets the exception of f pass: the text stays as set on entry
wait_please_reraise(raised) == IF raised THEN "loading" ELSE "ready"

\* _wait_message_decorator: the text wait_please leaves in info_text when
\* the callback f it wraps is over.  raised: f raised an exception, which
\* the bare except catches.  On entry wait_please sets the text "loading".
wait_please(raised) == IF raised THEN "error" ELSE "ready"

\* a hook that runs on every write, also of the value the input holds
Fires_always(old, new) == TRUE

\* on_change('value', ...): the hook of a text input runs when a write
\* gives the input a value other than the one it holds
Fires(old, new) == old # new

\* SoftFocus.update with its decorator, on the widget values w =
\* [size, name, date, view, info].  Writing a changed value into a text
\* input runs the input's on_change hook, which is update again, before
\* the write returns.
RECURSIVE update(_)
update(w) ==
    LET date_keep == {d \in Datasets : /\ LastModification(d) >= w.date[1]
                                       /\ LastModification(d) <= w.date[2]}
        sz == SizeStep(w.size)
        w1 == IF sz.rewrite /\ Fires(w.size, Hint)
              THEN update([w EXCEPT !.size = Hint])
              ELSE w
        name_ok == ValidRegex(w1.name)
        name_keep == IF name_ok
                     THEN {d \in Datasets : Contains(Chars(d), w1.name)}
                     ELSE Datasets
        w2 == IF ~name_ok /\ Fires(w1.name, << >>)
              THEN update([w1 EXCEPT !.name = << >>])
              ELSE w1
    IN  [w2 EXCEPT !.view = Rows(date_keep \cap sz.keep \cap name_keep),
                   !.info = wait_please(FALSE)]

\* the widget values update reads and writes, as one record
Widgets == [size |-> size_inputtext, name |-> csvname_text,
            date |-> date_slider, view |-> main_source, info |-> info_text]

\* update() run on the current state, with new values in some inputs
RunUpdate(w) ==
    LET r == update(w)
    IN  /\ size_inputtext' = r.size
        /\ csvname_text' = r.name
        /\ date_slider' = r.date
        /\ main_source' = r.view
        /\ info_text' = r.info

\* no callback of Self's document is running: the document lock is free
Idle == dl.pc = "idle"

\* the user drags the date slider: on_change('value') runs update
SetDate(v) ==
    /\ Idle
    /\ v # date_slider
    /\ RunUpdate([Widgets EXCEPT !.date = v])
    /\ UNCHANGED <<sel_csv, selected, plot_disabled, tab_vars, dl, dir_vars>>

\* the user types into the size input
SetSizeText(t) ==
    /\ Idle
    /\ t # size_inputtext
    /\ RunUpdate([Widgets EXCEPT !.size = t])
    /\ UNCHANGED <<sel_csv, selected, plot_disabled, tab_vars, dl, dir_vars>>

\* the user types into the name input
SetNameText(t) ==
    /\ Idle
    /\ t # csvname_text
    /\ RunUpdate([Widgets EXCEPT !.name = t])
    /\ UNCHANGED <<sel_csv, selected, plot_disabled, tab_vars, dl, dir_vars>>

\* a sel_table that keeps sel_csv when nothing is selected
sel_table_keep(sels) ==
    IF sels # << >>
    THEN [disabled |-> FALSE,
          sel |-> IF sels[1] < Len(main_source)
                  THEN main_source[sels[1] + 1]
                  ELSE sel_csv]
    ELSE [disabled |-> TRUE, sel |-> sel_csv]

\* a sel_table that leaves the plot button enabled when nothing is selected
sel_table_enabled(sels) ==
    IF sels # << >>
    THEN [disabled |-> FALSE,
          sel |-> IF sels[1] < Len(main_source)
                  THEN main_source[sels[1] + 1]
                  ELSE sel_csv]
    ELSE [disabled |-> FALSE, sel |-> NoneVal]

\* SoftFocus.sel_table on selected indices sels: the values of
\* plot_button.disabled and sel_csv it leaves.  An index past the end of
\* the table raises after the button was enabled.
sel_table(sels) ==
    IF sels # << >>
    THEN [disabled |-> FALSE,
          sel |-> IF sels[1] < Len(main_source)
                  THEN main_source[sels[1] + 1]
                  ELSE sel_csv]
    ELSE [disabled |-> TRUE, sel |-> NoneVal]

\* the user picks row i of the table: on_change('selected') runs sel_table
RowSelect(i) ==
    /\ Idle
    /\ i \in 0..(Len(main_source) - 1)
    /\ selected # <<i>>
    /\ selected' = <<i>>
    /\ sel_csv' = sel_table(<<i>>).sel
    /\ plot_disabled' = sel_table(<<i>>).disabled
    /\ UNCHANGED <<date_slider, size_inputtext, csvname_text, main_source,
                   info_text, tab_vars, dl, dir_vars>>

\* the user clears the selection
Deselect ==
    /\ Idle
    /\ selected # << >>
    /\ selected' = << >>
    /\ sel_csv' = sel_table(<< >>).sel
    /\ plot_disabled' = sel_table(<< >>).disabled
    /\ UNCHANGED <<date_slider, size_inputtext, csvname_text, main_source,
                   info_text, tab_vars, dl, dir_vars>>

\* ---------------------------------------------------------------- the tabs
\* tab1, the Panel of the catalog: it holds none of a plot tab's widgets
MainTab ==
    [name |-> NoneVal, closable |-> FALSE,
     x_sel |-> NoneVal, y_sel |-> NoneVal, y_sel2 |-> NoneVal,
     plot |-> [exists |-> FALSE], tag |-> 0, tag_hist |-> << >>]

\* the Spacer a new plot tab holds where its plot will go
NoPlot == MainTab.plot

\* ColumnDataSource(plot_df).data: the frame's columns and its index
ColumnDataSource(plot_df) == {"index"} \cup {plot_df[i] : i \in 1..Len(plot_df)}

\* a test against the object None, which no selector value equals
HasSecondary_object(tab) == tab.y_sel2 # NoneVal

\* y_sel2.value.strip() != 'None'
HasSecondary(tab) == tab.y_sel2 # NoneText

\* SoftFocus.create_plot_figure: the Plot put into active_tab, given the
\* frames loaded (dfs) and the selection (sel).  It raises KeyError where
\* the tab's name is no key of dfs; the callers test that.
create_plot_figure(active_tab, dfs, sel) ==
    LET ly == [name |-> "ly", x |-> active_tab.x_sel, y |-> active_tab.y_sel,
               y_range_name |-> "default"]
        ly2 == [name |-> "ly2", x |-> active_tab.x_sel, y |-> active_tab.y_sel2,
                y_range_name |-> "right_axis"]
    IN  [exists |-> TRUE,
         title |-> sel,
         source |-> ColumnDataSource(dfs[active_tab.name]),
         renderers |-> IF HasSecondary(active_tab) THEN <<ly, ly2>> ELSE <<ly>>,
         extra_y_ranges |-> IF HasSecondary(active_tab) THEN {"right_axis"} ELSE {},
         legend |-> IF HasSecondary(active_tab)
                    THEN <<active_tab.y_sel, active_tab.y_sel2>>
                    ELSE <<active_tab.y_sel>>]

\* self.plot_dfs[self.sel_csv] = plot_df
Loaded(dfs, csv) ==
    [k \in (DOMAIN dfs) \cup {csv} |-> IF k = csv THEN Columns(csv) ELSE dfs[k]]

\* the Panel add_plot_tab builds for the selected csv, before its first plot
NewTab(csv) ==
    [name |-> csv, closable |-> TRUE,
     x_sel |-> Columns(csv)[1], y_sel |-> Columns(csv)[2], y_sel2 |-> NoneText,
     plot |-> NoPlot, tag |-> 0, tag_hist |-> << >>]

\* self.tabs.tabs.append(plot_tab); self.create_plot_figure(plot_tab)
AppendTab(tbs, dfs, csv) ==
    Append(tbs, [NewTab(csv) EXCEPT !.plot = create_plot_figure(NewTab(csv), dfs, csv)])

\* SoftFocus.add_plot_tab with its decorator.  readable: whether read_csv
\* can read the selected file.  cap: the plot tabs the model lets a session
\* hold.
add_plot_tab(readable, cap) ==
    /\ Idle
    /\ Len(tabs) <= cap
    /\ IF sel_csv = NoneVal
       THEN /\ sel_csv' = sel_table(selected).sel
            /\ plot_disabled' = sel_table(selected).disabled
            /\ info_text' = wait_please(FALSE)
            /\ UNCHANGED <<tabs, plot_dfs>>
       ELSE IF ~readable
       THEN /\ info_text' = wait_please(TRUE)
            /\ UNCHANGED <<sel_csv, plot_disabled, tabs, plot_dfs>>
       ELSE IF Len(Columns(sel_csv)) < 2
       THEN /\ plot_dfs' = Loaded(plot_dfs, sel_csv)
            /\ info_text' = wait_please(TRUE)
            /\ UNCHANGED <<sel_csv, plot_disabled, tabs>>
       ELSE /\ plot_dfs' = Loaded(plot_dfs, sel_csv)
            /\ tabs' = AppendTab(tabs, plot_dfs', sel_csv)
            /\ info_text' = wait_please(FALSE)
            /\ UNCHANGED <<sel_csv, plot_disabled>>
    /\ UNCHANGED <<selected, date_slider, size_inputtext, csvname_text,
                   main_source, active, dl, dir_vars>>

\* a deletion that takes tab_ix for a position counted from one
DelTab_fromone(tbs, tab_ix) ==
    [i \in 1..(Len(tbs) - 1) |-> IF i < tab_ix THEN tbs[i] ELSE tbs[i + 1]]

\* del self.tabs.tabs[tab_ix]
DelTab(tbs, tab_ix) ==
    [i \in 1..(Len(tbs) - 1) |-> IF i <= tab_ix THEN tbs[i] ELSE tbs[i + 1]]

\* a remove_current_tab that also drops the loaded data of the closed tab
remove_current_tab_frees ==
    /\ Idle
    /\ IF active = 0 \/ active >= Len(tabs)
       THEN UNCHANGED <<tabs, plot_dfs>>
       ELSE /\ tabs' = DelTab(tabs, active)
            /\ plot_dfs' = [k \in (DOMAIN plot_dfs) \ {tabs[active + 1].name}
                               |-> plot_dfs[k]]
    /\ UNCHANGED <<catalog_vars, active, info_text, dl, dir_vars>>

\* SoftFocus.remove_current_tab.  An index past the end raises IndexError
\* out of the callback and changes nothing.
remove_current_tab ==
    /\ Idle
    /\ tabs' = IF active = 0 \/ active >= Len(tabs)
               THEN tabs
               ELSE DelTab(tabs, active)
    /\ UNCHANGED <<catalog_vars, active, plot_dfs, info_text, dl, dir_vars>>

\* the user clicks the header of tab `new`: changed_tab_cb
changed_tab_cb(new) ==
    /\ Idle
    /\ new \in 0..(Len(tabs) - 1)
    /\ new # active
    /\ active' = new
    /\ IF new = 0
       THEN RunUpdate(Widgets)
       ELSE UNCHANGED <<date_slider, size_inputtext, csvname_text,
                        main_source, info_text>>
    /\ UNCHANGED <<sel_csv, selected, plot_disabled, tabs, plot_dfs, dl, dir_vars>>

\* the tab the server holds as active is one of the tabs
ActiveInRange == active < Len(tabs)

\* the user picks a column in one of the three selectors of the tab shown
SetAxis(role, col) ==
    /\ Idle
    /\ ActiveInRange
    /\ tabs[active + 1].closable
    /\ LET tab == tabs[active + 1]
           cols == {Columns(tab.name)[i] : i \in 1..Len(Columns(tab.name))}
       IN  \/ /\ role = "x_sel" /\ col \in cols /\ col # tab.x_sel
              /\ tabs' = [tabs EXCEPT ![active + 1].x_sel = col]
           \/ /\ role = "y_sel" /\ col \in cols /\ col # tab.y_sel
              /\ tabs' = [tabs EXCEPT ![active + 1].y_sel = col]
           \/ /\ role = "y_sel2" /\ col \in cols \cup {NoneText}
              /\ col # tab.y_sel2
              /\ tabs' = [tabs EXCEPT ![active + 1].y_sel2 = col]
    /\ UNCHANGED <<catalog_vars, active, plot_dfs, info_text, dl, dir_vars>>

\* SoftFocus.update_plot with its decorator: tabs[tab_ix] raises IndexError
\* past the end, plot_dfs[test] raises KeyError on the catalog tab
update_plot ==
    /\ Idle
    /\ IF ActiveInRange /\ tabs[active + 1].name \in DOMAIN plot_dfs
       THEN /\ tabs' = [tabs EXCEPT ![active + 1].plot =
                           create_plot_figure(tabs[active + 1], plot_dfs, sel_csv)]
            /\ info_text' = wait_please(FALSE)
       ELSE /\ info_text' = wait_please(TRUE)
            /\ UNCHANGED tabs
    /\ UNCHANGED <<catalog_vars, active, plot_dfs, dl, dir_vars>>

\* ------------------------------------------------------- the upload folder
\* str(self.document.session_context._id) of the session modelled
Self == "s1"

\* the ids of the other sessions connected to the server
Others == {"s2", "s3"}

\* the csv files whose plot tab another session exports from
OtherTests == {"a.csv", "b.csv"}

\* one advance of the wall clock, in hours
TickHours == RetentionHours

\* an access time more than the retention threshold before the server starts
LongAgo == 0 - (RetentionHours + 1)

\* A file name is the sequence of its parts: the artifact of session s0 is
\* 's0' + '_' + 'output' + '.xlsx'.
OldLocked == <<"s0", "_", "output", ".xlsx">>
OldArtifact == <<"s9", "_", "output", ".xlsx">>
Notes == <<"notes", ".txt">>

\* files os.remove cannot delete (PermissionError): held open by a reader
LockedFiles == {OldLocked}

\* what static/uploads holds when the server starts: artifacts that earlier
\* sessions left, and a file that is no artifact
InitFiles ==
    [f \in {OldLocked, OldArtifact, Notes} |->
        [atime |-> LongAgo, sheet |-> NoneVal, columns |-> {}]]

\* fpath.endswith(suffix), on names and suffixes given by their parts
EndsWith(fpath, suffix) ==
    /\ Len(fpath) >= Len(suffix)
    /\ \A i \in 1..Len(suffix) : fpath[Len(fpath) - Len(suffix) + i] = suffix[i]

\* a path built from the id of one session, whichever session exports
xlsxpath_fixed(session_id) == <<"s2", "_", "output", ".xlsx">>

\* a path that also carries the time of the export
xlsxpath_stamped(session_id) ==
    <<session_id, ToString(clock), "_", "output", ".xlsx">>

\* os.path.join(dirpath, session_id + '_output.xlsx')
xlsxpath(session_id) == <<session_id, "_", "output", ".xlsx">>

\* os.remove(fpath) succeeds
CanRemove(fpath) == fpath \in DOMAIN files /\ fpath \notin LockedFiles

\* the folder after os.remove(fpath)
Removed(fpath) == [f \in (DOMAIN files) \ {fpath} |-> files[f]]

\* the folder after writer.close(): the sheet 'data' + test holding data,
\* in a file created now
Written(fpath, test, data) ==
    [f \in (DOMAIN files) \cup {fpath} |->
        IF f = fpath
        THEN [atime |-> clock, sheet |-> <<"data", test>>, columns |-> data]
        ELSE files[f]]

\* an export of the two columns the primary glyph draws
ExportData_primary(p) == {p.renderers[1].x, p.renderers[1].y}

\* pd.DataFrame(ly.data_source.data): what download takes from the plot
ExportData(p) == p.source

\* no download of Self is under way
DlIdle == [pc |-> "idle", path |-> NoneVal, test |-> NoneVal, data |-> {}]

\* SoftFocus.download of Self, up to os.path.exists(xlsxpath).  It raises
\* (and the decorator reports) where the active index is past the end of
\* the tabs, or the active tab holds no plot.
download_begin ==
    /\ Idle
    /\ ActiveInRange /\ tabs[active + 1].closable
          => Len(tabs[active + 1].tag_hist) < MaxExports
    /\ IF ActiveInRange /\ tabs[active + 1].plot.exists
       THEN /\ dl' = [pc |-> IF xlsxpath(Self) \in DOMAIN files
                             THEN "remove" ELSE "write",
                      path |-> xlsxpath(Self),
                      test |-> tabs[active + 1].name,
                      data |-> ExportData(tabs[active + 1].plot)]
            /\ info_text' = "loading"
       ELSE /\ info_text' = wait_please(TRUE)
            /\ UNCHANGED dl
    /\ UNCHANGED <<catalog_vars, tab_vars, dir_vars>>

\* os.remove(xlsxpath) of Self's download
download_remove ==
    /\ dl.pc = "remove"
    /\ IF CanRemove(dl.path)
       THEN /\ files' = Removed(dl.path)
            /\ dl' = [dl EXCEPT !.pc = "write"]
            /\ UNCHANGED info_text
       ELSE /\ info_text' = wait_please(TRUE)
            /\ dl' = DlIdle
            /\ UNCHANGED files
    /\ UNCHANGED <<catalog_vars, tab_vars, odl, clock, cl>>

\* a tag written back as it was
NextTag_same(tag, choice) == tag

\* download_b.tags[0] + pd.np.random.choice([-1,1],size=1)[0]
NextTag(tag, choice) == tag + choice

\* the tabs after download_b.tags = [download_b.tags[0] + choice]
Tagged(choice) ==
    [tabs EXCEPT ![active + 1].tag = NextTag(@, choice),
                 ![active + 1].tag_hist = Append(@, tabs[active + 1].tag)]

\* a download that changes the tag before the writer is done
download_write_tagfirst(choice, ok) ==
    /\ dl.pc = "write"
    /\ tabs' = Tagged(choice)
    /\ IF ok
       THEN /\ files' = Written(dl.path, dl.test, dl.data)
            /\ info_text' = wait_please(FALSE)
       ELSE /\ info_text' = wait_please(TRUE)
            /\ UNCHANGED files
    /\ dl' = DlIdle
    /\ UNCHANGED <<catalog_vars, active, plot_dfs, odl, clock, cl>>

\* the rest of Self's download: the writer writes and closes the file, and
\* then the tag of the download button changes.  ok: whether ExcelWriter,
\* to_excel and close succeed; where one of them raises, the file is not
\* written and the line that changes the tag is not reached.
download_write(choice, ok) ==
    /\ dl.pc = "write"
    /\ IF ok
       THEN /\ files' = Written(dl.path, dl.test, dl.data)
            /\ tabs' = Tagged(choice)
            /\ info_text' = wait_please(FALSE)
       ELSE /\ info_text' = wait_please(TRUE)
            /\ UNCHANGED <<files, tabs>>
    /\ dl' = DlIdle
    /\ UNCHANGED <<catalog_vars, active, plot_dfs, odl, clock, cl>>

\* no download of another session is under way
OdlIdle == [pc |-> "idle", test |-> NoneVal]

\* download in another session o whose active tab plots the csv `test`
other_begin(o, test) ==
    /\ odl[o].pc = "idle"
    /\ odl' = [odl EXCEPT ![o] = [pc |-> IF xlsxpath(o) \in DOMAIN files
                                         THEN "remove" ELSE "write",
                                  test |-> test]]
    /\ UNCHANGED <<catalog_vars, tab_vars, info_text, dl, files, clock, cl>>

other_remove(o) ==
    /\ odl[o].pc = "remove"
    /\ IF CanRemove(xlsxpath(o))
       THEN /\ files' = Removed(xlsxpath(o))
            /\ odl' = [odl EXCEPT ![o].pc = "write"]
       ELSE /\ odl' = [odl EXCEPT ![o] = OdlIdle]
            /\ UNCHANGED files
    /\ UNCHANGED <<catalog_vars, tab_vars, info_text, dl, clock, cl>>

other_write(o) ==
    /\ odl[o].pc = "write"
    /\ files' = Written(xlsxpath(o), odl[o].test,
                        ColumnDataSource(Columns(odl[o].test)))
    /\ odl' = [odl EXCEPT ![o] = OdlIdle]
    /\ UNCHANGED <<catalog_vars, tab_vars, info_text, dl, clock, cl>>

\* time passes
Tick ==
    /\ clock < MaxTicks * TickHours
    /\ clock' = clock + TickHours
    /\ UNCHANGED <<catalog_vars, tab_vars, info_text, dl, odl, files, cl>>

\* ------------------------------------------------------------- the cleanup
\* no cleanup pass is under way
ClIdle == [pc |-> "idle", now |-> 0, pending |-> {}, cur |-> NoneVal,
           stale0 |-> {}]

\* (now - os.path.getatime(fpath))/3600 > 24 and fpath.endswith('output.xlsx')
Excess(fpath, now) ==
    /\ now - files[fpath].atime > RetentionHours
    /\ EndsWith(fpath, <<"output", ".xlsx">>)

\* the pass after it is done with fpath: on to the next file, or over
ClNext(fpath) ==
    IF cl.pending \ {fpath} = {}
    THEN ClIdle
    ELSE [cl EXCEPT !.pc = "scan", !.pending = @ \ {fpath}, !.cur = NoneVal]

\* _delete_excess_xlsx starts: now = time.time(), and os.walk lists the
\* folder.  stale0 notes the files that are excess as the pass starts.
cleanup_start ==
    /\ cl.pc = "idle"
    /\ DOMAIN files # {}
    /\ cl' = [pc |-> "scan", now |-> clock, pending |-> DOMAIN files,
              cur |-> NoneVal,
              stale0 |-> {f \in DOMAIN files : Excess(f, clock)}]
    /\ UNCHANGED <<catalog_vars, tab_vars, info_text, dl, odl, files, clock>>

\* the pass takes fname from the listing and computes file_age.
\* os.path.getatime raises where the file is gone, which ends the pass.
cleanup_stat(fname) ==
    /\ cl.pc = "scan"
    /\ fname \in cl.pending
    /\ cl' = IF fname \notin DOMAIN files
             THEN ClIdle
             ELSE IF Excess(fname, cl.now)
             THEN [cl EXCEPT !.pc = "remove", !.cur = fname]
             ELSE ClNext(fname)
    /\ UNCHANGED <<catalog_vars, tab_vars, info_text, dl, odl, files, clock>>

\* os.remove(fpath) of the pass; it raises where the file is gone or cannot
\* be deleted, which ends the pass
cleanup_remove ==
    /\ cl.pc = "remove"
    /\ IF CanRemove(cl.cur)
       THEN /\ files' = Removed(cl.cur)
            /\ cl' = ClNext(cl.cur)
       ELSE /\ cl' = ClIdle
            /\ UNCHANGED files
    /\ UNCHANGED <<catalog_vars, tab_vars, info_text, dl, odl, clock>>

\* ------------------------------------------------------ the specifications
\* the state when SoftFocus() returns
Init ==
    /\ sel_csv = NoneVal
    /\ selected = << >>
    /\ plot_disabled = TRUE
    /\ date_slider = <<first_date, last_date>>
    /\ size_inputtext = InitHint
    /\ csvname_text = << >>
    /\ main_source = CSV
    /\ tabs = <<MainTab>>
    /\ active = 0
    /\ plot_dfs = << >>
    /\ info_text = "ready"
    /\ dl = DlIdle
    /\ odl = [o \in Others |-> OdlIdle]
    /\ files = InitFiles
    /\ clock = 0
    /\ cl = ClIdle

\* what the user does in the catalog tab
CatalogStep ==
    \/ \E i \in 0..(Len(CSV) - 1) : RowSelect(i)
    \/ Deselect
    \/ \E v \in DateRanges : SetDate(v)
    \/ \E t \in SizeTexts : SetSizeText(t)
    \/ \E t \in NameTexts : SetNameText(t)

\* Self's download callback, step by step
DownloadStep ==
    \/ download_begin
    \/ download_remove
    \/ \E choice \in {-1, 1}, ok \in BOOLEAN : download_write(choice, ok)

\* the download callbacks of the other sessions
OtherStep ==
    \/ \E o \in Others, test \in OtherTests : other_begin(o, test)
    \/ \E o \in Others : other_remove(o)
    \/ \E o \in Others : other_write(o)

\* a periodic cleanup callback
CleanupStep ==
    \/ cleanup_start
    \/ \E fname \in DOMAIN files \cup cl.pending : cleanup_stat(fname)
    \/ cleanup_remove

AxisRoles == {"x_sel", "y_sel", "y_sel2"}
AxisValues == {"t", "u", "w", NoneText}

Next ==
    \/ CatalogStep
    \/ \E readable \in BOOLEAN : add_plot_tab(readable, MaxTabs)
    \/ \E new \in 0..MaxTabs : changed_tab_cb(new)
    \/ remove_current_tab
    \/ \E role \in AxisRoles, col \in AxisValues : SetAxis(role, col)
    \/ update_plot
    \/ DownloadStep
    \/ OtherStep
    \/ CleanupStep
    \/ Tick

\* every callback of every session, the cleanup and the clock
Spec == Init /\ [][Next]_vars

\* the catalog and the life of the plot tabs of one session
NextTabs ==
    \/ CatalogStep
    \/ \E readable \in BOOLEAN : add_plot_tab(readable, MaxTabs)
    \/ \E new \in 0..MaxTabs : changed_tab_cb(new)
    \/ remove_current_tab
    \/ update_plot

SpecTabs == Init /\ [][NextTabs]_vars

\* everything that runs update or sel_table: the table and the three filter
\* inputs, and the one plot tab the session may open here, switch to,
\* return from and close
NextFilter ==
    \/ CatalogStep
    \/ \E readable \in BOOLEAN : add_plot_tab(readable, 1)
    \/ \E new \in 0..1 : changed_tab_cb(new)
    \/ remove_current_tab

SpecFilter == Init /\ [][NextFilter]_vars

\* the selection and the life of the plot tabs, the filter inputs left as
\* they are
NextOpenClose ==
    \/ \E i \in 0..(Len(CSV) - 1) : RowSelect(i)
    \/ Deselect
    \/ \E readable \in BOOLEAN : add_plot_tab(readable, MaxTabs)
    \/ \E new \in 0..MaxTabs : changed_tab_cb(new)
    \/ remove_current_tab
    \/ update_plot

SpecOpenClose == Init /\ [][NextOpenClose]_vars

\* one plot tab at a time: its selectors, its plot and its exports
NextPlot ==
    \/ \E i \in 0..(Len(CSV) - 1) : RowSelect(i)
    \/ \E readable \in BOOLEAN : add_plot_tab(readable, 1)
    \/ \E new \in 0..1 : changed_tab_cb(new)
    \/ remove_current_tab
    \/ \E role \in AxisRoles, col \in AxisValues : SetAxis(role, col)
    \/ update_plot
    \/ DownloadStep

SpecPlot == Init /\ [][NextPlot]_vars

\* the upload folder: the exports of the other sessions, the cleanup passes
\* and the clock
NextFiles ==
    \/ OtherStep
    \/ CleanupStep
    \/ Tick

SpecFiles == Init /\ [][NextFiles]_vars

\* ---------------------------------------------------------------- claims
\* the plot tabs, as indices into tabs
PlotTabs == 2..Len(tabs)

\* the names of the open plot tabs
OpenNames == {tabs[i].name : i \in PlotTabs}

\* the rows of the table shown
View == {main_source[i] : i \in 1..Len(main_source)}

\* '_output.xlsx', the end of the name of every artifact
ArtifactSuffix == <<"_", "output", ".xlsx">>

\* the artifacts of owner o in folder fs
ArtifactsOf(o, fs) ==
    {f \in DOMAIN fs : f[1] = o /\ EndsWith(f, ArtifactSuffix)}

\* every session id that owns or has owned an artifact
Owners == {Self} \cup Others \cup {"s0", "s9"}

\* C1: there is at most one open plot tab per dataset identifier; opening
\* twice for the same selected dataset yields one tab, not two.
C1_OneTabPerDataset ==
    \A i, j \in PlotTabs : tabs[i].name = tabs[j].name => i = j

\* C2: a selection that is not none is a member of the current filtered
\* view: a filter change that excludes the selected dataset resets sel_csv
\* to none and disables the plot button.
C2_SelectionInView ==
    \/ sel_csv = NoneVal /\ plot_disabled
    \/ sel_csv \in View

\* C3: the folder holds at most one artifact per owner session id, and
\* when an export completes the owner has exactly one artifact, the older
\* one being gone.
C3_OneArtifactPerOwner ==
    /\ [](\A o \in Owners : Cardinality(ArtifactsOf(o, files)) <= 1)
    /\ [][\A o \in Others :
            odl[o].pc = "write" /\ odl'[o].pc = "idle"
                => Cardinality(ArtifactsOf(o, files')) = 1]_vars

\* C3 witness: every other session has exported and one of them exports
\* again: it found its earlier artifact and is about to remove it.
C3_Witness ==
    /\ \A o \in Others : ArtifactsOf(o, files) # {}
    /\ \E o \in Others : odl[o].pc = "remove"

\* C4: a file that a cleanup pass deletes has, at the moment it is
\* deleted, a last-access age above the 24 hour threshold, and a name that
\* ends with the artifact suffix, whatever exports interleave with the pass.
C4_CleanupSparesFresh ==
    [][cl.pc = "remove" /\ cl' # cl /\ cl.cur \in DOMAIN files
         /\ cl.cur \notin DOMAIN files'
          => /\ clock - files[cl.cur].atime > RetentionHours
             /\ EndsWith(cl.cur, ArtifactSuffix)]_vars

\* C5: when a cleanup pass ends, every artifact that was older than the
\* threshold as the pass started is deleted (or was replaced by a newer
\* export), whatever happened to other files in the pass.  A file that
\* os.remove cannot delete is left out of the statement.
C5_StaleDeletedByPassEnd ==
    [][cl.pc # "idle" /\ cl'.pc = "idle"
          => \A f \in cl.stale0 \ LockedFiles :
                \/ f \notin DOMAIN files'
                \/ cl.now - files'[f].atime <= RetentionHours]_vars

\* C6: a failure on one file is skipped and the pass continues: a step of
\* the pass takes at most the file it examined off the files still to
\* examine.
C6_PassContinues ==
    [][cl.pc # "idle" => Cardinality(cl.pending \ cl'.pending) <= 1]_vars

\* the values the tag of tab i has taken, oldest first
TagValues(i) == Append(tabs[i].tag_hist, tabs[i].tag)

\* C7: the tag of a download button alternates between two values: it
\* takes at most two distinct values and each export changes it.
C7_TagAlternates ==
    \A i \in PlotTabs :
        /\ Cardinality({TagValues(i)[k] : k \in 1..Len(TagValues(i))}) <= 2
        /\ \A k \in 1..(Len(TagValues(i)) - 1) :
              TagValues(i)[k + 1] # TagValues(i)[k]

\* C7 as amended: each export moves the tag by exactly one, up or down, so
\* that consecutive values differ.
C7_TagStepsByOne ==
    \A i \in PlotTabs :
        \A k \in 1..(Len(TagValues(i)) - 1) :
            \/ TagValues(i)[k + 1] = TagValues(i)[k] + 1
            \/ TagValues(i)[k + 1] = TagValues(i)[k] - 1

\* C7 witness: two exports from one button took its tag to a third value.
C7_Witness ==
    \E i \in PlotTabs :
        Cardinality({TagValues(i)[k] : k \in 1..Len(TagValues(i))}) = 3

\* the step in which Self's download writes its file
SelfWrites == dl.pc = "write" /\ dl'.pc = "idle" /\ info_text' = "ready"

\* C8: the artifact an export writes holds exactly the x column and the
\* primary y column of the plot as last rendered.
C8_ExportsPrimaryOnly ==
    [][SelfWrites =>
          files'[dl.path].columns =
              {tabs[active + 1].plot.renderers[1].x,
               tabs[active + 1].plot.renderers[1].y}]_vars

\* C8 as amended: the artifact an export writes holds every column of the
\* data source of the plot, which is the whole loaded dataset with its
\* row index, on a sheet named after the dataset of the tab.
C8_ExportsWholeSource ==
    [][SelfWrites =>
          /\ files'[dl.path].columns =
                ColumnDataSource(plot_dfs[tabs[active + 1].name])
          /\ files'[dl.path].sheet = <<"data", tabs[active + 1].name>>]_vars

\* C8 witness: an export is about to write, the plot it exports draws a
\* secondary series, and the data taken holds the secondary column, which
\* is neither the x nor the primary y column.
C8_Witness ==
    /\ dl.pc = "write"
    /\ Len(tabs[active + 1].plot.renderers) = 2
    /\ tabs[active + 1].plot.renderers[2].y \in dl.data
    /\ tabs[active + 1].plot.renderers[2].y
          \notin {tabs[active + 1].plot.renderers[1].x,
                  tabs[active + 1].plot.renderers[1].y}

\* C9: closing a plot tab frees its loaded data: when a tab is removed and
\* no tab of its dataset remains, plot_dfs holds no entry for the dataset.
C9_CloseFreesData ==
    [][Len(tabs') < Len(tabs)
          => \/ tabs[active + 1].name \in {tabs'[i].name : i \in 2..Len(tabs')}
             \/ tabs[active + 1].name \notin DOMAIN plot_dfs']_vars

\* C10: closing the active plot tab makes the catalog tab the active one
\* (and so never another plot tab, and never an index past the tabs).
C10_CloseFallsBack ==
    [][Len(tabs') < Len(tabs) => active' = 0]_vars

\* the integers a size text stands for, token by token
SizeTokens(t) == [i \in 1..Len(SplitDots(t)) |-> IntOf(SplitDots(t)[i])]

\* a size text the filter accepts: one or two tokens, every one an integer
WellFormed(t) ==
    /\ Len(SizeTokens(t)) \in {1, 2}
    /\ \A i \in 1..Len(SizeTokens(t)) : SizeTokens(t)[i] # -1

\* dataset d meets the size text t: its size is the one integer, or lies
\* between the smaller and the larger of the two, bounds included
SizeOk(t, d) ==
    LET n == {SizeTokens(t)[i] : i \in 1..Len(SizeTokens(t))}
    IN  SizeKB(d) >= Min(n) /\ SizeKB(d) <= Max(n)

\* dataset d meets the date range v
DateOk(v, d) == LastModification(d) >= v[1] /\ LastModification(d) <= v[2]

\* the rows of the table a step leaves
ViewAfter == {main_source'[i] : i \in 1..Len(main_source')}

\* C11: a well-formed size text restricts the view: a single integer n
\* keeps only the datasets of size n, and 'a..b' keeps only the datasets
\* whose size lies in [min(a,b), max(a,b)], in whichever order a and b
\* are typed.
C11_SizeSpecRestricts ==
    [][\A t \in SizeTexts :
          WellFormed(t) /\ SetSizeText(t)
              => \A d \in ViewAfter : SizeOk(t, d)]_vars

Pos(d) == CHOOSE k \in 1..Len(CSV) : CSV[k] = d

\* view lists datasets of the catalog, each once, in the catalog's order
InCatalogOrder(view) ==
    /\ \A i \in 1..Len(view) : view[i] \in Datasets
    /\ \A i, j \in 1..Len(view) : i < j => Pos(view[i]) < Pos(view[j])

\* the name of dataset d holds the text pat
NameOk(pat, d) == Contains(Chars(d), pat)

\* C13: for a valid filter (a date range, a well-formed size text, a name
\* text) the view update produces is a subsequence of the catalog in the
\* catalog's order, and every row of it meets the date range, the size
\* text and the name text.
C13_ViewMeetsFilter ==
    [][\A t \in SizeTexts :
          WellFormed(t) /\ SetSizeText(t)
              => /\ InCatalogOrder(main_source')
                 /\ \A d \in ViewAfter :
                       /\ DateOk(date_slider', d)
                       /\ SizeOk(t, d)
                       /\ NameOk(csvname_text', d)]_vars

\* the step in which the user clicks the plot button
PlotRequested == \E readable \in BOOLEAN : add_plot_tab(readable, MaxTabs)

\* C14: a plot requested with no selection is shown to the user as an
\* error, the status not ending as "ready", and changes no state: the
\* tabs, the loaded data and the selection stay as they are.
C14_NoSelectionIsError ==
    [][sel_csv = NoneVal /\ PlotRequested
          => /\ info_text' # "ready"
             /\ UNCHANGED <<tabs, plot_dfs, sel_csv>>]_vars

\* C14 as amended: a plot requested with no selection is ignored without
\* an error: the status ends as "ready", the tabs, the active tab, the
\* loaded data and the selection stay as they are, and the plot button is
\* disabled.
C14_NoSelectionIgnored ==
    [][sel_csv = NoneVal /\ PlotRequested
          => /\ info_text' = "ready"
             /\ UNCHANGED <<tabs, active, plot_dfs, sel_csv, selected>>
             /\ plot_disabled']_vars

\* C14 witness: nothing is selected and the status is "ready" after a plot
\* request that found no selection.  The loaded data hold c.csv, so a
\* request for c.csv ended in the error status; no plot tab was ever
\* opened (none is open, and closing one would have needed another tab
\* active, then a return to the catalog that rewrites the size input); the
\* size input was never rewritten, so update never ran: then only a plot
\* request with no selection can have put "ready" over the error.
C14_Witness ==
    /\ sel_csv = NoneVal
    /\ plot_disabled
    /\ info_text = "ready"
    /\ "c.csv" \in DOMAIN plot_dfs
    /\ Len(tabs) = 1
    /\ active = 0
    /\ size_inputtext = InitHint

\* C15: a plot request that fails (the file cannot be read, or holds fewer
\* than two columns) creates nothing: it ends in the error status, and no
\* tab and no entry of the loaded data is there that was not there before.
C15_FailedOpenCreatesNothing ==
    [][sel_csv # NoneVal /\ PlotRequested /\ info_text' = "error"
          => UNCHANGED <<tabs, plot_dfs>>]_vars

\* C16: the status is never stuck at "loading".  While no callback runs,
\* the status is what the last wrapped callback (update, also when it ran
\* nested in itself, add_plot_tab, update_plot, download) left as it
\* returned or raised: "ready" or the error.  While download runs, the
\* status is the "loading" set on entry, and its next step can be taken.
C16_NeverStuckBusy ==
    /\ Idle => info_text \in {"ready", "error"}
    /\ ~Idle => /\ info_text = "loading"
                /\ ENABLED (download_remove \/ download_write(1, TRUE))

\* C16 witness: no callback runs and the status shows an error, so a
\* wrapped callback raised; the size input holds the second hint, so
\* update has run nested in itself, the outer call writing the hint.
C16_Witness ==
    /\ Idle
    /\ info_text = "error"
    /\ size_inputtext = Hint

\* the step in which a download of Self ends in the error status
ExportFails == DownloadStep /\ info_text' = "error"

\* a step that changes the tag of a download button
TagChanges ==
    /\ Len(tabs') = Len(tabs)
    /\ \E i \in 1..Len(tabs) : tabs'[i].tag # tabs[i].tag

\* C17: a download that fails, in its lookups or in its file operations,
\* ends in the error status and leaves the tabs (their axis selections,
\* plots and tags with them), the active tab and the loaded data as they
\* were; and a tag changes only in the step in which a download has
\* written its whole artifact and ends "ready".
C17_FailedExportTouchesNothing ==
    [][/\ ExportFails => UNCHANGED <<tabs, active, plot_dfs, catalog_vars>>
       /\ TagChanges =>
             /\ dl.pc = "write"
             /\ info_text' = "ready"
             /\ xlsxpath(Self) \in DOMAIN files'
             /\ files'[xlsxpath(Self)] =
                   [atime |-> clock, sheet |-> <<"data", dl.test>>,
                    columns |-> dl.data]]_vars

\* C17 witness: a download has failed in the writer.  A button's tag has
\* changed, so an artifact of Self was written; the folder holds none now,
\* so a later download removed it and then failed to write, which left the
\* error status.
C17_Witness ==
    /\ Idle
    /\ info_text = "error"
    /\ \E i \in PlotTabs : tabs[i].tag_hist # << >>
    /\ xlsxpath(Self) \notin DOMAIN files

\* the plot of tab matches the tab's selectors: one series on the default
\* range where the secondary selector reads 'None', and otherwise a second
\* series over the same x column on the range of the right-hand axis; the
\* legend names the y column of each series, in order
SeriesMatch(tab) ==
    LET p == tab.plot
        n == IF tab.y_sel2 = NoneText THEN 1 ELSE 2
    IN  /\ p.exists
        /\ Len(p.renderers) = n
        /\ \A k \in 1..Len(p.renderers) : p.renderers[k].x = tab.x_sel
        /\ p.renderers[1].y = tab.y_sel
        /\ p.renderers[1].y_range_name \notin p.extra_y_ranges
        /\ Len(p.legend) = Len(p.renderers)
        /\ \A k \in 1..Len(p.renderers) : p.legend[k] = p.renderers[k].y
        /\ IF n = 1
           THEN p.extra_y_ranges = {}
           ELSE /\ p.renderers[2].y = tab.y_sel2
                /\ Cardinality(p.extra_y_ranges) = 1
                /\ p.renderers[2].y_range_name \in p.extra_y_ranges

\* C18: a plot, as it is built for a new tab or rebuilt by update_plot,
\* has exactly one series and no secondary range where the secondary
\* selector reads 'None', and exactly two series, both over the chosen x
\* column, with a secondary range where it names a column; its legend has
\* one entry per series, labelled with the series' column.
C18_SeriesFollowSecondary ==
    [][Len(tabs') >= Len(tabs) =>
          \A i \in 2..Len(tabs') :
              i > Len(tabs) \/ tabs'[i].plot # tabs[i].plot
                  => SeriesMatch(tabs'[i])]_vars

\* C18 witness: an open tab shows a plot with two series, the second one
\* drawing the column its secondary selector names.
C18_Witness ==
    \E i \in PlotTabs :
        /\ Len(tabs[i].plot.renderers) = 2
        /\ tabs[i].plot.renderers[2].y = tabs[i].y_sel2
        /\ tabs[i].plot.extra_y_ranges # {}

\* the files of folder fs that a step changes, creates or deletes
Touched ==
    {f \in (DOMAIN files) \cup (DOMAIN files') :
        \/ f \notin DOMAIN files
        \/ f \notin DOMAIN files'
        \/ files'[f] # files[f]}

\* C19: the path a session exports to is made of its session id and the
\* fixed suffix alone, so a step of the download of session o touches no
\* file but <o>_output.xlsx: the artifact of every other owner stays in
\* the folder as it was, however the downloads interleave.
C19_ExportsKeepApart ==
    [][\A o \in Others :
          odl'[o] # odl[o]
              => /\ Touched \subseteq {<<o>> \o ArtifactSuffix}
                 /\ \A b \in Owners \ {o} :
                       \A f \in ArtifactsOf(b, files) :
                           f \in DOMAIN files' /\ files'[f] = files[f]]_vars

\* C19 witness: one session is about to write its artifact while the
\* artifact of another session, written by an export, lies in the folder
\* and a download of that session is under way too.
C19_Witness ==
    \E o, b \in Others :
        /\ o # b
        /\ odl[o].pc = "write"
        /\ odl[b].pc # "idle"
        /\ \E f \in ArtifactsOf(b, files) : files[f].sheet # NoneVal

\* C20: the catalog tab is never closed: whatever tabs are opened, closed
\* and switched to, the tab list is not empty and its first tab is the
\* catalog tab; and no step taken while the catalog tab is active, a close
\* request among them, removes a tab.
C20_CatalogNeverClosed ==
    /\ [](Len(tabs) >= 1 /\ tabs[1] = MainTab)
    /\ [][active = 0 => Len(tabs') >= Len(tabs)]_vars
    /\ [][active = 0 /\ remove_current_tab => UNCHANGED vars]_vars

\* C20 witness: a plot tab was opened, made active and closed: the active
\* index still points at the place of the closed tab, and the catalog tab
\* is the one tab left.
C20_Witness ==
    /\ Len(tabs) = 1
    /\ active = 1
    /\ tabs[1] = MainTab
    /\ plot_dfs # << >>

\* C21: in every state the plot button is enabled if and only if a dataset
\* is selected: plot_button.disabled is true exactly when sel_csv is none,
\* whatever rows were selected and deselected, filters changed, and plot
\* tabs opened and closed.
C21_ButtonFollowsSelection == plot_disabled <=> sel_csv = NoneVal

\* C21 witness: a dataset is selected and the button is enabled after a
\* filter update (the size input holds the hint update wrote), after a
\* plot tab was opened and closed (the active index points past the one
\* tab left), and with the selected row filtered out of the table.
C21_Witness ==
    /\ sel_csv # NoneVal
    /\ ~plot_disabled
    /\ size_inputtext = Hint
    /\ Len(tabs) = 1
    /\ active = 1
    /\ sel_csv \notin View

\* C22: whatever tabs were opened and closed, the name of every open plot
\* tab is a key of plot_dfs, so that update_plot on an open plot tab finds
\* the tab's dataset and ends "ready".
C22_OpenTabsHaveData ==
    /\ [](\A i \in PlotTabs : tabs[i].name \in DOMAIN plot_dfs)
    /\ [][update_plot /\ ActiveInRange /\ active >= 1
             => info_text' = "ready"]_vars

\* C22 witness: two plot tabs of one dataset were open and the second of
\* them was closed while active (the active index still points at its
\* place); the tab that is left finds its dataset loaded.
C22_Witness ==
    /\ Len(tabs) = 2
    /\ active = 2
    /\ Cardinality(DOMAIN plot_dfs) = 1
    /\ tabs[2].name \in DOMAIN plot_dfs

\* The chain of calls that one call of update on the widget values w sets
\* off, followed as update runs it but no deeper than fuel nested calls:
\* w, the widget values the call leaves; calls, the calls made, this one
\* included; cut, whether a call was left out for lack of fuel.
RECURSIVE UpdateChain(_, _)
UpdateChain(w, fuel) ==
    LET stop(v) == [w |-> v, calls |-> 0, cut |-> FALSE]
        date_keep == {d \in Datasets : DateOk(w.date, d)}
        sz == SizeStep(w.size)
        c1 == IF sz.rewrite /\ Fires(w.size, Hint)
              THEN UpdateChain([w EXCEPT !.size = Hint], fuel - 1)
              ELSE stop(w)
        name_ok == ValidRegex(c1.w.name)
        name_keep == IF name_ok
                     THEN {d \in Datasets : NameOk(c1.w.name, d)}
                     ELSE Datasets
        c2 == IF ~name_ok /\ Fires(c1.w.name, << >>)
              THEN UpdateChain([c1.w EXCEPT !.name = << >>], fuel - 1)
              ELSE stop(c1.w)
    IN  IF fuel = 0
        THEN [w |-> w, calls |-> 0, cut |-> TRUE]
        ELSE [w |-> [c2.w EXCEPT
                        !.view = Rows(date_keep \cap sz.keep \cap name_keep),
                        !.info = "ready"],
              calls |-> 1 + c1.calls + c2.calls,
              cut |-> c1.cut \/ c2.cut]

\* the texts a size input and a name input can hold when update is called
SizeInputs == SizeTexts \cup {InitHint, Hint}
NameInputs == NameTexts

\* C23: the chain of nested updates ends.  In every state, and for every
\* text in the size input and in the name input, a call of update sets off
\* at most three calls in all, itself included; the chain leaves the
\* widget values update computes, and they are a fixpoint: one more update
\* makes a single call and leaves the input texts and the table as they
\* are.
C23_UpdateChainEnds ==
    \A t \in SizeInputs, n \in NameInputs :
        LET w == [Widgets EXCEPT !.size = t, !.name = n]
            c == UpdateChain(w, MaxNesting)
            again == UpdateChain(c.w, MaxNesting)
        IN  /\ ~c.cut
            /\ c.calls <= 3
            /\ c.w = update(w)
            /\ again.calls = 1
            /\ again.w = c.w

\* C23 witness: a chain has run and ended.  The size input holds the hint
\* that update wrote over another text, a write that ran update again;
\* the name input is empty; the table is narrowed by the date range; and
\* from here a bad name text sets off a chain of two calls.
C23_Witness ==
    /\ size_inputtext = Hint
    /\ csvname_text = << >>
    /\ info_text = "ready"
    /\ main_source # CSV
    /\ UpdateChain([Widgets EXCEPT !.name = <<"(">>], MaxNesting).calls = 2

\* C24: a plot built into a tab has the tab's own dataset as its title:
\* after update_plot on the active tab, the title of the tab's plot is the
\* name of the tab, whatever is selected in the catalog by then.
C24_TitleIsTabName ==
    [][update_plot /\ info_text' = "ready"
          => tabs'[active + 1].plot.title = tabs[active + 1].name]_vars

====
